---------------------------- MODULE Spec2Model ----------------------------
(***************************************************************************)
(* Model of the advanced IP checker (src/project3.v2.py): the scheduler    *)
(* loop of main(), the normalizer normalize_data, the presenter            *)
(* print_selected and the history writer append_history_csv.               *)
(*                                                                         *)
(* Python values are modelled as tagged records: None, str (a sequence of  *)
(* text fragments, the colon being a fragment of its own) and int.  A key  *)
(* that is missing from a dict is the value Absent; dict.get turns it into *)
(* None.  An exception is the set of the classes named by the except       *)
(* clauses of main() that it is an instance of, together with the call     *)
(* that raised it.                                                         *)
(***************************************************************************)
EXTENDS Integers, Sequences, FiniteSets, TLC

VARIABLES args, pc, run_count, data_raw, data, console, hist, histExisted,
          slept, now, exc, nFetch, nPresent, nAppend, nRaised

vars == <<args, pc, run_count, data_raw, data, console, hist, histExisted,
          slept, now, exc, nFetch, nPresent, nAppend, nRaised>>

(***************************** bounds **************************************)
MaxCount == 3
MaxInterval == 2
MaxLen == 2

(***************************** Python values *******************************)
Null == [t |-> "null", s |-> <<>>, n |-> 0]
Absent == [t |-> "absent", s |-> <<>>, n |-> 0]
Str(chars) == [t |-> "str", s |-> chars, n |-> 0]
Num(k) == [t |-> "num", s |-> <<>>, n |-> k]

Chars == {"a", ":"}

RECURSIVE SeqsUpTo(_)
SeqsUpTo(k) ==
    IF k = 0 THEN {<<>>}
    ELSE LET shorter == SeqsUpTo(k - 1)
         IN  shorter \cup {Append(q, c) : q \in shorter, c \in Chars}

StrVals == {Str(q) : q \in SeqsUpTo(MaxLen)}
NumVals == {Num(0), Num(5)}
Vals == {Absent, Null} \cup StrVals \cup NumVals

\* bool(v): None, "" and 0 are falsy.
Truthy(v) ==
    CASE v.t = "str" -> v.s # <<>>
      [] v.t = "num" -> v.n # 0
      [] OTHER -> FALSE

\* a or b
PyOr(a, b) == IF Truthy(a) THEN a ELSE b

\* d.get(k): a missing key gives None.
Get(d, k) == IF k \in DOMAIN d /\ d[k] # Absent THEN d[k] ELSE Null

\* ":" in s, for a str s.
HasColon(chars) == \E i \in DOMAIN chars : chars[i] = ":"

DigitChar(d) ==
    CASE d = 0 -> "0" [] d = 1 -> "1" [] d = 2 -> "2" [] d = 3 -> "3"
      [] d = 4 -> "4" [] d = 5 -> "5" [] d = 6 -> "6" [] d = 7 -> "7"
      [] d = 8 -> "8" [] d = 9 -> "9"

RECURSIVE Digits(_)
Digits(k) == IF k < 10 THEN <<DigitChar(k)>>
             ELSE Append(Digits(k \div 10), DigitChar(k % 10))

\* str(v) for a value that is not None.
PyStr(v) == IF v.t = "num" THEN Digits(v.n) ELSE v.s

IPv4 == Str(<<"IPv4">>)
IPv6 == Str(<<"IPv6">>)

(***************************** records *************************************)
RawKeys == {"ip", "query", "ip_address", "city", "region", "region_name",
            "country_name", "country", "country_code", "latitude", "lat",
            "longitude", "lon", "lng", "timezone", "org", "isp", "asn", "as"}

CanonicalKeys == {"ip", "version", "city", "region", "country", "country_code",
                  "latitude", "longitude", "timezone", "isp", "asn", "org"}

\* The raw record that holds the keys of f and no other.
Raw(f) == [k \in RawKeys |-> IF k \in DOMAIN f THEN f[k] ELSE Absent]

NoData == [k \in CanonicalKeys |-> Absent]
NoRaw == Raw(<<>>)

(***************************** Normalizer **********************************)
\* line 67: data.get("ip") or data.get("query") or data.get("ip_address")
ResolveIp(d) == PyOr(PyOr(Get(d, "ip"), Get(d, "query")), Get(d, "ip_address"))

\* line 69: "IPv6" if ip and ":" in ip else "IPv4"
VersionOf(ip) == IF Truthy(ip) /\ HasColon(ip.s) THEN IPv6 ELSE IPv4

\* line 69 raises TypeError when ip is truthy and not a str (":" in 5).
NormalizeRaises(d) == LET ip == ResolveIp(d) IN Truthy(ip) /\ ip.t # "str"

normalize_data(d) ==
    LET ip == ResolveIp(d) IN
    [k \in CanonicalKeys |->
        CASE k = "ip" -> ip
          [] k = "version" -> VersionOf(ip)
          [] k = "city" -> Get(d, "city")
          [] k = "region" -> PyOr(Get(d, "region"), Get(d, "region_name"))
          [] k = "country" -> PyOr(Get(d, "country_name"), Get(d, "country"))
          [] k = "country_code" -> PyOr(Get(d, "country"), Get(d, "country_code"))
          [] k = "latitude" -> PyOr(Get(d, "latitude"), Get(d, "lat"))
          [] k = "longitude" ->
                PyOr(PyOr(Get(d, "longitude"), Get(d, "lon")), Get(d, "lng"))
          [] k = "timezone" -> Get(d, "timezone")
          [] k = "isp" -> PyOr(Get(d, "org"), Get(d, "isp"))
          [] k = "asn" -> PyOr(Get(d, "asn"), Get(d, "as"))
          [] k = "org" -> Get(d, "org")]

(***************************** Presenter ***********************************)
FIELD_LABELS ==
    [k \in CanonicalKeys |->
        CASE k = "ip" -> "Public IP Address"
          [] k = "version" -> "IP Version"
          [] k = "city" -> "City"
          [] k = "region" -> "Region"
          [] k = "country" -> "Country"
          [] k = "country_code" -> "Country Code"
          [] k = "latitude" -> "Latitude"
          [] k = "longitude" -> "Longitude"
          [] k = "timezone" -> "Timezone"
          [] k = "isp" -> "ISP / Provider"
          [] k = "asn" -> "ASN"
          [] k = "org" -> "Organization"]

\* FIELD_LABELS.get(f, f)
FieldLabel(f) == IF f \in DOMAIN FIELD_LABELS THEN FIELD_LABELS[f] ELSE f

\* One printed line of print_selected: the label and the text after the colon.
FieldLine(d, f) ==
    [label |-> FieldLabel(f),
     text  |-> IF Get(d, f) # Null THEN PyStr(Get(d, f)) ELSE <<"N/A">>]

\* The lines print_selected prints between its two banners, in order.
print_selected(d, fields) == [i \in 1..Len(fields) |-> FieldLine(d, fields[i])]

(***************************** History Writer ******************************)
\* datetime.utcnow().isoformat() + "Z"
Timestamp(t) == <<"T">> \o Digits(t) \o <<"Z">>

\* csv writes None as the empty cell and any other value as str(value).
CsvCell(v) == IF v = Null THEN <<>> ELSE PyStr(v)

HeaderRow(fields) == <<<<"timestamp">>>> \o [i \in 1..Len(fields) |-> <<fields[i]>>]

DataRow(t, fields, d) ==
    <<Timestamp(t)>> \o [i \in 1..Len(fields) |-> CsvCell(Get(d, fields[i]))]

\* A writer that writes the header on every call.
AppendAlwaysHeader(h, fields, d, t) ==
    [exists |-> TRUE,
     rows   |-> h.rows \o <<HeaderRow(fields), DataRow(t, fields, d)>>]

\* The file after a successful append_history_csv(path, fields, d) at time t.
append_history_csv(h, fields, d, t) ==
    [exists |-> TRUE,
     rows   |-> h.rows \o (IF ~h.exists THEN <<HeaderRow(fields)>> ELSE <<>>)
                       \o <<DataRow(t, fields, d)>>]

(***************************** exceptions **********************************)
Exc(cls, origin) == [cls |-> cls, origin |-> origin]
NoExc == Exc({}, "none")

\* The classes of the exception r.json() raises on a body that is not JSON.
\* The requests library is not pinned by the repository: from 2.27 on it
\* raises requests.JSONDecodeError (a RequestException and a
\* json.JSONDecodeError), before that json.JSONDecodeError, or the
\* JSONDecodeError of simplejson (a ValueError only) when that is installed.
JsonErrorClasses == {{"RequestException", "JSONDecodeError"},
                     {"JSONDecodeError"}, {}}

\* What fetch_live can raise: requests.get (transport), raise_for_status
\* (HTTP status) and r.json() (body).
LiveFailures ==
    {Exc({"RequestException"}, "fetch_live.get"),
     Exc({"RequestException"}, "fetch_live.status")}
    \cup {Exc(c, "fetch_live.json") : c \in JsonErrorClasses}

\* What load_mock can raise: open (missing file, or a PermissionError) and
\* json.load (invalid JSON, or a UnicodeDecodeError).
MockFailures ==
    {Exc({"FileNotFoundError"}, "load_mock.open"), Exc({}, "load_mock.open"),
     Exc({"JSONDecodeError"}, "load_mock.json"), Exc({}, "load_mock.json")}

\* What append_history_csv can raise when it opens the file: the directory
\* of the path is missing, or the file cannot be written.
HistoryFailures ==
    {Exc({"FileNotFoundError"}, "append_history_csv.open"),
     Exc({}, "append_history_csv.open")}

TypeError == Exc({}, "normalize_data")

\* The except clause of main() that catches e: the first one that matches.
Handler(e) ==
    IF "RequestException" \in e.cls THEN "network"
    ELSE IF "FileNotFoundError" \in e.cls THEN "notfound"
    ELSE IF "JSONDecodeError" \in e.cls THEN "decode"
    ELSE "unexpected"

\* A loop whose "mock file not found" clause lacks its break.
BreaksOnDecodeOnly(h) == h = "decode"

\* A loop whose catch-all clause ends in break too.
BreaksOnUnexpected(h) == h \in {"notfound", "decode", "unexpected"}

\* The except clauses that end in break.
Breaks(h) == h \in {"notfound", "decode"}

\* Where main() goes after catching e.
AfterCatch(e) == IF Breaks(Handler(e)) THEN "Aborted" ELSE "EndCycle"

(***************************** configuration *******************************)
IpHost == Str(<<"1", ".", "2">>)
Ip6Host == Str(<<"a", ":", "b">>)

\* Raw records the sources return in the loop.
LoopRaws ==
    {Raw("ip" :> IpHost @@ "city" :> Str(<<"X">>)),
     Raw("query" :> Ip6Host @@ "org" :> Str(<<"ISP">>)),
     Raw("ip" :> Num(5))}

MockChoices == {Null, Str(<<"mock.json">>)}
ManualChoices == {Null, Str(<<>>), IpHost, Ip6Host}
HistoryChoices == {Null, Str(<<"history.csv">>)}
FieldChoices == {<<"ip", "version", "city">>, <<"isp", "city">>}

\* --interval: no interval, or one of MaxInterval seconds.
IntervalChoices == {0, MaxInterval}

Args == [count : 0..MaxCount, interval : IntervalChoices, mock : MockChoices,
         manual_ip : ManualChoices, save_history : HistoryChoices,
         fields : FieldChoices]

NoFile == [exists |-> FALSE, rows |-> <<>>]
EmptyFile == [exists |-> TRUE, rows |-> <<>>]

Terminal == {"Done", "Aborted"}

(***************************** scheduler loop ******************************)
Init ==
    /\ args \in Args
    /\ pc = "Idle"
    /\ run_count = 0
    /\ data_raw = NoRaw
    /\ data = NoData
    /\ console = <<>>
    /\ hist \in {NoFile, EmptyFile}
    /\ histExisted = hist.exists
    /\ slept = <<>>
    /\ now = 0
    /\ exc = NoExc
    /\ nFetch = 0
    /\ nPresent = 0
    /\ nAppend = 0
    /\ nRaised = 0

\* lines 134-135: run_count = 0, then the first test of the while condition.
Start ==
    /\ pc = "Idle"
    /\ run_count' = 0
    /\ pc' = IF 0 < args.count THEN "Fetching" ELSE "Done"
    /\ UNCHANGED <<args, data_raw, data, console, hist, histExisted, slept,
                   now, exc, nFetch, nPresent, nAppend, nRaised>>

\* The exception a failing step leaves main() with: lines 161-170.
Catch(e) ==
    /\ exc' = e
    /\ nRaised' = nRaised + 1
    /\ pc' = AfterCatch(e)

\* lines 141-144, the source returns a record.
FetchOk ==
    /\ pc = "Fetching"
    /\ \E raw \in LoopRaws : data_raw' = raw
    /\ nFetch' = nFetch + 1
    /\ exc' = NoExc
    /\ pc' = "Presenting"
    /\ UNCHANGED <<args, run_count, data, console, hist, histExisted, slept,
                   now, nPresent, nAppend, nRaised>>

\* lines 141-144, the source raises.
FetchRaise ==
    /\ pc = "Fetching"
    /\ nFetch' = nFetch + 1
    /\ \E e \in (IF Truthy(args.mock) THEN MockFailures ELSE LiveFailures) :
          Catch(e)
    /\ UNCHANGED <<args, run_count, data_raw, data, console, hist,
                   histExisted, slept, now, nPresent, nAppend>>

\* An override that sets ip and leaves the version of the source record.
ApplyManualKeepVersion(d, manual) ==
    IF Truthy(manual) THEN [d EXCEPT !["ip"] = manual] ELSE d

\* lines 149-151: the manual override of ip and version.
ApplyManual(d, manual) ==
    IF Truthy(manual)
    THEN [d EXCEPT !["ip"] = manual,
                   !["version"] = IF HasColon(manual.s) THEN IPv6 ELSE IPv4]
    ELSE d

\* lines 146-154: normalize, override, print.
Present ==
    /\ pc = "Presenting"
    /\ IF NormalizeRaises(data_raw)
       THEN /\ Catch(TypeError)
            /\ UNCHANGED <<data, console, nPresent>>
       ELSE /\ data' = ApplyManual(normalize_data(data_raw), args.manual_ip)
            /\ console' = print_selected(data', args.fields)
            /\ nPresent' = nPresent + 1
            /\ pc' = "Persisting"
            /\ UNCHANGED <<exc, nRaised>>
    /\ UNCHANGED <<args, run_count, data_raw, hist, histExisted, slept, now,
                   nFetch, nAppend>>

\* lines 157-159, the row is appended (or no history path is configured).
PersistOk ==
    /\ pc = "Persisting"
    /\ IF Truthy(args.save_history)
       THEN /\ hist' = append_history_csv(hist, args.fields, data, now)
            /\ nAppend' = nAppend + 1
       ELSE UNCHANGED <<hist, nAppend>>
    /\ pc' = "EndCycle"
    /\ UNCHANGED <<args, run_count, data_raw, data, console, histExisted,
                   slept, now, exc, nFetch, nPresent, nRaised>>

\* lines 157-158, open() raises: the file is left as it was.
PersistRaise ==
    /\ pc = "Persisting"
    /\ Truthy(args.save_history)
    /\ \E e \in HistoryFailures : Catch(e)
    /\ UNCHANGED <<args, run_count, data_raw, data, console, hist,
                   histExisted, slept, now, nFetch, nPresent, nAppend>>

\* A loop that counts every run twice.
RunAfterSkips(run) == run + 2

\* line 172: run_count += 1
RunAfter(run) == run + 1

\* A loop that tests run_count > args.count before it sleeps.
LoopEndsLate(run, count) == run > count

\* line 173: if run_count >= args.count: break
LoopEnds(run, count) == run >= count

\* lines 172-174: count the run; stop when no run remains.
EndCycle ==
    /\ pc = "EndCycle"
    /\ run_count' = RunAfter(run_count)
    /\ pc' = IF LoopEnds(run_count', args.count) THEN "Done" ELSE "Sleeping"
    /\ UNCHANGED <<args, data_raw, data, console, hist, histExisted, slept,
                   now, exc, nFetch, nPresent, nAppend, nRaised>>

\* lines 177-181: the seconds main() sleeps between two runs.
SleepSeconds(interval) == IF interval > 0 THEN interval ELSE 1

\* lines 177-181 and the while test of line 135, which holds here.
Sleep ==
    /\ pc = "Sleeping"
    /\ slept' = Append(slept, SleepSeconds(args.interval))
    /\ now' = now + SleepSeconds(args.interval)
    /\ pc' = IF run_count < args.count THEN "Fetching" ELSE "Done"
    /\ UNCHANGED <<args, run_count, data_raw, data, console, hist,
                   histExisted, exc, nFetch, nPresent, nAppend, nRaised>>

Next ==
    \/ Start
    \/ FetchOk
    \/ FetchRaise
    \/ Present
    \/ PersistOk
    \/ PersistRaise
    \/ EndCycle
    \/ Sleep

Spec == Init /\ [][Next]_vars

FairSpec == Spec /\ WF_vars(Next)

(***************************** normalizer alone ****************************)
\* The groups of raw keys one canonical field reads.
KeyGroups == {{"ip", "query", "ip_address"}, {"region", "region_name"},
              {"country_name", "country", "country_code"}, {"latitude", "lat"},
              {"longitude", "lon", "lng"}, {"org", "isp"}, {"asn", "as"},
              {"city"}, {"timezone"}}

\* Every raw record that holds values of Vals under the keys of one group.
NormRaws == UNION {{Raw(f) : f \in [g -> Vals]} : g \in KeyGroups}

DefaultArgs == [count |-> 1, interval |-> 0, mock |-> Null, manual_ip |-> Null,
                save_history |-> Null, fields |-> <<"ip", "version", "city">>]

InitNormalize ==
    /\ args = DefaultArgs
    /\ pc = "Normalizing"
    /\ run_count = 0
    /\ data_raw \in NormRaws
    /\ data = NoData
    /\ console = <<>>
    /\ hist = NoFile
    /\ histExisted = FALSE
    /\ slept = <<>>
    /\ now = 0
    /\ exc = NoExc
    /\ nFetch = 0
    /\ nPresent = 0
    /\ nAppend = 0
    /\ nRaised = 0

\* line 146: data = normalize_data(data_raw)
NormalizeCall ==
    /\ pc = "Normalizing"
    /\ pc' = "Normalized"
    /\ IF NormalizeRaises(data_raw)
       THEN exc' = TypeError /\ UNCHANGED data
       ELSE data' = normalize_data(data_raw) /\ UNCHANGED exc
    /\ UNCHANGED <<args, run_count, data_raw, console, hist, histExisted,
                   slept, now, nFetch, nPresent, nAppend, nRaised>>

NextNormalize == NormalizeCall

NormalizeSpec == InitNormalize /\ [][NextNormalize]_vars

(***************************** claims **************************************)
HistoryOn == Truthy(args.save_history)
IsPrefix(p, q) == Len(p) <= Len(q) /\ \A i \in 1..Len(p) : q[i] = p[i]
\* The calls of a cycle that come before anything is printed.
FetchOrigins == {"fetch_live.get", "fetch_live.status", "fetch_live.json",
                 "load_mock.open", "load_mock.json", "normalize_data"}
MissingMock == Exc({"FileNotFoundError"}, "load_mock.open")

\* The state part of C1.
C1_Counts ==
    /\ nFetch <= args.count
    /\ (pc = "Fetching" => nFetch = run_count)
    /\ (pc = "Presenting" => nFetch = run_count + 1)
    /\ (nRaised = 0 =>
          /\ pc # "Aborted"
          /\ (pc \in {"Fetching", "Sleeping", "Done"} =>
                nPresent = nFetch /\ nAppend = (IF HistoryOn THEN nFetch ELSE 0))
          /\ (pc = "Presenting" =>
                nPresent = nFetch - 1
                /\ nAppend = (IF HistoryOn THEN nFetch - 1 ELSE 0))
          /\ (pc = "Persisting" =>
                nPresent = nFetch
                /\ nAppend = (IF HistoryOn THEN nFetch - 1 ELSE 0)))
    /\ (args.count >= 1 /\ nRaised = 0 /\ pc = "Done" =>
          /\ run_count = args.count
          /\ nFetch = args.count
          /\ nPresent = args.count
          /\ nAppend = (IF HistoryOn THEN args.count ELSE 0))

\* C1: for every count >= 1 and interval >= 0, when no cycle raises, the loop
\* performs exactly count cycles (fetch, then present, then persist when a
\* history path is configured, one cycle ending before the next starts),
\* never more than count, and then terminates in Done.
C1_ExactlyCountCycles == [] C1_Counts /\ <>(pc \in Terminal)

C1_Witness ==
    /\ pc = "Done" /\ nRaised = 0 /\ args.count = MaxCount /\ args.interval = 0
    /\ HistoryOn /\ nFetch = MaxCount /\ nAppend = MaxCount

\* C2: a mock path that points to a nonexistent file ends the loop in
\* Aborted in the cycle that meets it, whatever count is: no further fetch,
\* nothing presented or persisted in that cycle, no sleep after it; when the
\* file is missing from the start, after exactly one attempted cycle.
C2_MissingMockAborts ==
    Truthy(args.mock) /\ exc = MissingMock =>
        /\ pc = "Aborted"
        /\ ~ ENABLED Next
        /\ nFetch = run_count + 1
        /\ Len(slept) = run_count
        /\ nPresent <= run_count
        /\ nAppend <= run_count
        /\ (nRaised = 1 /\ run_count = 0 =>
              /\ nFetch = 1 /\ nPresent = 0 /\ nAppend = 0 /\ slept = <<>>
              /\ console = <<>> /\ hist.rows = <<>>)

C2_Witness ==
    /\ pc = "Aborted" /\ exc = MissingMock /\ args.count = MaxCount
    /\ nFetch = 1 /\ HistoryOn

\* An exception that is a NetworkError, or none of the three named kinds.
NetworkOrOther(e) == e # NoExc /\ e.cls \in {{"RequestException"}, {}}

C4_HistoryFailureNotFatal ==
    exc \in HistoryFailures =>
        /\ pc # "Aborted"
        /\ (pc \in Terminal => nFetch = args.count /\ run_count = args.count)

\* C5: a DecodeError is fatal in mock mode and recoverable in live mode:
\* invalid JSON read by load_mock ends the loop in Aborted, invalid JSON
\* received by fetch_live skips the cycle and the loop goes on to Done after
\* count attempts.
C5_DecodeErrorPolicy ==
    /\ (exc = Exc({"JSONDecodeError"}, "load_mock.json") => pc = "Aborted")
    /\ (exc.origin = "fetch_live.json" =>
          /\ pc # "Aborted"
          /\ (pc \in Terminal => pc = "Done" /\ nFetch = args.count))

\* The state part of C6.
C6_Rows ==
    ~histExisted /\ nAppend >= 1 =>
        /\ hist.exists
        /\ Len(hist.rows) = nAppend + 1
        /\ hist.rows[1] = HeaderRow(args.fields)
        /\ \A i \in 2..Len(hist.rows) :
              /\ hist.rows[i] # HeaderRow(args.fields)
              /\ Len(hist.rows[i]) = Len(args.fields) + 1
        /\ (pc = "EndCycle" /\ exc = NoExc =>
              hist.rows[Len(hist.rows)] = DataRow(now, args.fields, data))

\* C6: after k >= 1 successful append_history_csv calls on a path that did
\* not exist before the first, the file is one header row (timestamp, then
\* the fields) followed by exactly k data rows; no call after the first
\* repeats the header, and no existing row is changed or removed.
C6_HeaderOnceThenRows ==
    /\ [] C6_Rows
    /\ [][IsPrefix(hist.rows, hist'.rows) /\ (hist.exists => hist'.exists)]_vars
    /\ [][nAppend' = nAppend + 1 /\ hist.exists =>
            Len(hist'.rows) = Len(hist.rows) + 1]_vars

C6_Witness ==
    /\ ~histExisted /\ nAppend = MaxCount /\ Len(hist.rows) = MaxCount + 1
    /\ hist.rows[1] = <<<<"timestamp">>, <<"isp">>, <<"city">>>>

\* C7: the version of normalize_data's result is "IPv6" iff the resolved ip
\* is a string with a colon, "IPv4" when it is a string without one, and
\* absent iff the resolved ip is null.
C7_VersionRule ==
    pc = "Normalized" /\ exc = NoExc =>
        LET ip == data["ip"]
            v  == data["version"]
        IN  /\ (v = IPv6 <=> (ip.t = "str" /\ HasColon(ip.s)))
            /\ (ip.t = "str" /\ ~HasColon(ip.s) => v = IPv4)
            /\ (v = Null <=> ip = Null)

\* The candidate keys of the fields that have several, left to right.
Candidates ==
    [f \in {"ip", "region", "country", "country_code", "latitude",
            "longitude", "isp", "asn"} |->
        CASE f = "ip" -> <<"ip", "query", "ip_address">>
          [] f = "region" -> <<"region", "region_name">>
          [] f = "country" -> <<"country_name", "country">>
          [] f = "country_code" -> <<"country", "country_code">>
          [] f = "latitude" -> <<"latitude", "lat">>
          [] f = "longitude" -> <<"longitude", "lon", "lng">>
          [] f = "isp" -> <<"org", "isp">>
          [] f = "asn" -> <<"asn", "as">>]

RECURSIVE FirstNonNull(_, _)
FirstNonNull(d, keys) ==
    IF keys = <<>> THEN Null
    ELSE IF Get(d, Head(keys)) # Null THEN Get(d, Head(keys))
    ELSE FirstNonNull(d, Tail(keys))

\* C8: for every field with several candidate keys, normalize_data returns
\* the value of the first candidate, left to right, that is not null, and
\* null only when all are null or missing (a first candidate of 0 or ""
\* wins over a later one).
C8_FirstNonNullWins ==
    pc = "Normalized" /\ exc = NoExc =>
        \A f \in DOMAIN Candidates :
            data[f] = FirstNonNull(data_raw, Candidates[f])

\* C9: with a manual IP configured, the record presented and persisted in a
\* cycle whose fetch succeeds has ip equal to the manual value and version
\* derived from the manual value alone; every other field is as normalized.
C9_ManualOverride ==
    Truthy(args.manual_ip) /\ exc = NoExc /\ pc \in {"Persisting", "EndCycle"} =>
        /\ data["ip"] = args.manual_ip
        /\ data["version"] = (IF HasColon(args.manual_ip.s) THEN IPv6 ELSE IPv4)
        /\ \A k \in CanonicalKeys \ {"ip", "version"} :
              data[k] = normalize_data(data_raw)[k]
        /\ console = print_selected(data, args.fields)
        /\ (args.fields[1] = "ip" =>
              console[1].text = args.manual_ip.s
              /\ console[2].text = data["version"].s)
        /\ (pc = "EndCycle" /\ HistoryOn =>
              hist.rows[Len(hist.rows)] = DataRow(now, args.fields, data))

C9_Witness ==
    /\ pc = "EndCycle" /\ exc = NoExc /\ args.manual_ip = Ip6Host /\ HistoryOn
    /\ Get(data_raw, "ip") = IpHost
    /\ data["version"] = IPv6 /\ data["city"] = Str(<<"X">>)
    /\ args.fields[1] = "ip"

\* The state part of C10.
C10_SleepCount ==
    /\ \A i \in 1..Len(slept) :
          slept[i] = (IF args.interval > 0 THEN args.interval ELSE 1)
    /\ (pc \in {"Fetching", "Presenting", "Persisting", "EndCycle", "Aborted"}
          => Len(slept) = run_count)
    /\ (pc = "Sleeping" => Len(slept) = run_count - 1 /\ run_count < args.count)
    /\ (pc = "Done" /\ args.count >= 1 =>
          Len(slept) = args.count - 1 /\ run_count = args.count)

\* C10: the loop sleeps only when more runs remain: once after each counted
\* cycle with run < count (interval seconds, or 1 second when interval is
\* 0), then it fetches again; never after the final cycle or an abort, so a
\* run that ends in Done has slept exactly count - 1 times.
C10_SleepsOnlyBetweenRuns ==
    /\ [] C10_SleepCount
    /\ [][pc = "Sleeping" => pc' = "Fetching" /\ Len(slept') = Len(slept) + 1]_vars
    /\ [][slept' # slept => pc = "Sleeping"]_vars

C10_Witness ==
    /\ pc = "Done" /\ args.count = MaxCount /\ args.interval = 0
    /\ slept = [i \in 1..(MaxCount - 1) |-> 1]

=============================================================================
